---- MODULE Spec2Model ----
(***************************************************************************)
(* Book management service (src/app.py, src/main.py): five HTTP routes     *)
(* over one SQLAlchemy-mapped table `books` in a MySQL store.              *)
(*                                                                         *)
(* Every request runs in its own session (get_db).  A handler is split at  *)
(* its store round trips: the SELECT of query(...).first(), the flush and  *)
(* COMMIT of db.commit(), the SELECT of db.refresh(), and db.close().      *)
(* Requests interleave at these points.                                    *)
(***************************************************************************)
EXTENDS Integers, FiniteSets, TLC

VARIABLES
    table,      \* rows of `books` (committed state of the store)
    nextId,     \* AUTO_INCREMENT counter of books.id
    strict,     \* sql_mode of the store: TRUE rejects, FALSE truncates
    pc,         \* position of each worker in its request
    op,         \* route of the request
    book_id,    \* path parameter book_id
    body,       \* request body (BookCreate payload, or Invalid)
    db_book,    \* the handler's ORM object: the row as its session loaded it
    resp,       \* HTTP response of each request
    session,    \* "none" | "open" | "closed"
    closes      \* number of db.close() calls on the request's session

vars == <<table, nextId, strict, pc, op, book_id, body, db_book, resp, session, closes>>

----------------------------------------------------------------------------
(* Bounds *)

(* The largest id the AUTO_INCREMENT counter hands out. *)
MaxId == 2

(* The worker threads that serve requests, one request each at a time. *)
Workers == {"w1", "w2"}

----------------------------------------------------------------------------
(* Column widths of the books table *)

TitleLen == 255
AuthorLen == 255
DescriptionLen == 500
IsbnLen == 13
(* published_year is a signed 32-bit INT. *)
IntMax == 2147483647

(* A text value is a run of n copies of one character; NULL has its own tag. *)
Str(c, k) == [ch |-> c, n |-> k]
Null == [ch |-> "NULL", n |-> 0]

Fields == {"title", "author", "description", "isbn", "published_year"}

Width(f) ==
    CASE f = "title" -> TitleLen
      [] f = "author" -> AuthorLen
      [] f = "description" -> DescriptionLen
      [] f = "isbn" -> IsbnLen
      [] OTHER -> 0

IsText(f) == f # "published_year"

(* v does not fit column f: the store refuses it under a strict sql_mode.    *)
TooLong(f, v) ==
    IF IsText(f) THEN v.n > Width(f) ELSE v > IntMax \/ v < -IntMax - 1

(* The value column f holds after a lenient store accepted v for it: a      *)
(* VARCHAR(w) keeps the first w characters, an INT the nearest bound.       *)
Fit(f, v) ==
    IF ~TooLong(f, v) THEN v
    ELSE IF IsText(f) THEN [v EXCEPT !.n = Width(f)]
    ELSE IF v > IntMax THEN IntMax ELSE -IntMax - 1

----------------------------------------------------------------------------
(* Inputs *)

Titles == {Str("T", 1)}
Authors == {Str("A", 1)}
Descriptions == {Null, Str("D", 1)}
Isbns == {Str("1", IsbnLen), Str("2", IsbnLen), Str("1", IsbnLen + 1)}
Years == {1965}

(* BookCreate: every instance that passes validation. *)
BookCreate ==
    [title : Titles, author : Authors, description : Descriptions,
     isbn : Isbns, published_year : Years]

(* A body that fails validation (a required field missing or mistyped). *)
Invalid == [invalid |-> TRUE]

NoBody == [empty |-> TRUE]

Bodies == BookCreate \cup {Invalid}

(* None, as query(...).first() returns it when no row matches. *)
None == [none |-> TRUE]

NoResp == [status |-> 0]

Ops == {"get_books", "get_book", "create_book", "update_book", "delete_book"}

TakesBody(o) == o \in {"create_book", "update_book"}
TakesId(o) == o \in {"get_book", "update_book", "delete_book"}

----------------------------------------------------------------------------
(* Responses *)

Ok(b) == [status |-> 200, body |-> b]
NotFound == [status |-> 404, body |-> [detail |-> "Book not found"]]
Unprocessable == [status |-> 422, body |-> [detail |-> "validation error"]]
ServerError == [status |-> 500, body |-> [detail |-> "Internal Server Error"]]
Deleted(id) == Ok([message |-> id])

----------------------------------------------------------------------------
(* The store and the ORM *)

(* Book(...) whose key is not generated: every object gets id 1. *)
BookFixedId(id, p) ==
    [id |-> 1, title |-> p.title, author |-> p.author,
     description |-> p.description, isbn |-> p.isbn,
     published_year |-> p.published_year]

(* Book(...): the object with the attribute values the handler gave it. *)
Book(id, p) ==
    [id |-> id, title |-> p.title, author |-> p.author,
     description |-> p.description, isbn |-> p.isbn,
     published_year |-> p.published_year]

(* The object after db.commit(): its attributes are expired, it keeps its   *)
(* identity.                                                                *)
Expired(id) == [id |-> id]

(* query(Book).filter(Book.id == id).first() *)
First(tbl, id) ==
    IF \E b \in tbl : b.id = id THEN CHOOSE b \in tbl : b.id = id ELSE None

(* The attributes whose assignment changed the loaded value: the unit of    *)
(* work writes only these columns in its UPDATE.                            *)
Dirty(obj, p) == {f \in Fields : p[f] # obj[f]}

(* Row `row` after UPDATE ... SET <cols> = <values of p>. *)
Assign(row, cols, p) ==
    [id |-> row.id,
     title |-> IF "title" \in cols THEN Fit("title", p.title) ELSE row.title,
     author |-> IF "author" \in cols THEN Fit("author", p.author) ELSE row.author,
     description |-> IF "description" \in cols
                     THEN Fit("description", p.description) ELSE row.description,
     isbn |-> IF "isbn" \in cols THEN Fit("isbn", p.isbn) ELSE row.isbn,
     published_year |-> IF "published_year" \in cols
                        THEN Fit("published_year", p.published_year)
                        ELSE row.published_year]

(* books.isbn without unique=True. *)
NotUnique(tbl, isbn, id) == FALSE

(* unique=True on books.isbn: another row already holds this isbn. *)
IsbnTaken(tbl, isbn, id) == \E b \in tbl : b.id # id /\ b.isbn = isbn

(* A strict store refuses a statement that writes an over-long value. *)
DataError(mode, cols, p) == mode /\ \E f \in cols : TooLong(f, p[f])

(* DELETE FROM books, its WHERE clause lost. *)
DeleteAll(tbl, id) == {}

(* DELETE FROM books WHERE id = :id *)
DeleteRow(tbl, id) == {b \in tbl : b.id # id}

----------------------------------------------------------------------------
(* get_db without try/finally: the handler's end skips db.close(). *)
NoFinally == "idle"

(* get_db: where control goes when the handler returns or raises: the       *)
(* finally block.                                                           *)
Finally == "close"

(* The rows the books table can hold. *)
Rows ==
    [id : 1..MaxId, title : {Fit("title", v) : v \in Titles},
     author : {Fit("author", v) : v \in Authors},
     description : {Fit("description", v) : v \in Descriptions},
     isbn : {Fit("isbn", v) : v \in Isbns},
     published_year : {Fit("published_year", v) : v \in Years}]

TypeOK ==
    /\ table \subseteq Rows
    /\ nextId \in 1..(MaxId + 1)
    /\ strict \in BOOLEAN
    /\ pc \in [Workers -> {"idle", "handler", "commit", "refresh", "close"}]
    /\ op \in [Workers -> Ops \cup {"none"}]
    /\ book_id \in [Workers -> 0..MaxId]
    /\ body \in [Workers -> Bodies \cup {NoBody}]
    /\ \A w \in Workers : db_book[w] = None \/ db_book[w].id \in 1..MaxId
    /\ \A w \in Workers : resp[w].status \in {0, 200, 404, 422, 500}
    /\ session \in [Workers -> {"none", "open", "closed"}]
    /\ closes \in [Workers -> 0..1]

Init ==
    /\ table = {}
    /\ nextId = 1
    /\ strict \in BOOLEAN
    /\ pc = [r \in Workers |-> "idle"]
    /\ op = [r \in Workers |-> "none"]
    /\ book_id = [r \in Workers |-> 0]
    /\ body = [r \in Workers |-> NoBody]
    /\ db_book = [r \in Workers |-> None]
    /\ resp = [r \in Workers |-> NoResp]
    /\ session = [r \in Workers |-> "none"]
    /\ closes = [r \in Workers |-> 0]

(* The handler returns or raises with response x; its locals are gone and   *)
(* control is in get_db's finally block.                                    *)
Return(r, x) ==
    /\ resp' = [resp EXCEPT ![r] = x]
    /\ pc' = [pc EXCEPT ![r] = Finally]
    /\ db_book' = [db_book EXCEPT ![r] = None]

(* Creates accepted and not yet at their INSERT. *)
PendingCreates == Cardinality({w \in Workers : op[w] = "create_book" /\ pc[w] = "handler"})

(* A request arrives at an idle worker (the first of them): get_db opens its *)
(* session, the body is validated.                                           *)
Request(r) ==
    /\ pc[r] = "idle"
    /\ r = "w2" => pc["w1"] # "idle"
    /\ \E o \in Ops, id \in 1..MaxId, b \in Bodies :
        /\ o = "create_book" => nextId + PendingCreates <= MaxId
        /\ ~TakesId(o) => id = 1
        /\ ~TakesBody(o) => b = Invalid
        /\ op' = [op EXCEPT ![r] = o]
        /\ book_id' = [book_id EXCEPT ![r] = IF TakesId(o) THEN id ELSE 0]
        /\ body' = [body EXCEPT ![r] = IF TakesBody(o) THEN b ELSE NoBody]
        /\ session' = [session EXCEPT ![r] = "open"]
        /\ closes' = [closes EXCEPT ![r] = 0]
        /\ IF TakesBody(o) /\ b = Invalid
           THEN Return(r, Unprocessable)
           ELSE /\ pc' = [pc EXCEPT ![r] = "handler"]
                /\ UNCHANGED <<resp, db_book>>
    /\ UNCHANGED <<table, nextId, strict>>

get_books(r) ==
    /\ pc[r] = "handler" /\ op[r] = "get_books"
    /\ Return(r, Ok([books |-> table]))
    /\ UNCHANGED <<table, nextId, strict, op, book_id, body, session, closes>>

(* get_book without its `if not book` check. *)
get_book_unchecked(r) ==
    /\ pc[r] = "handler" /\ op[r] = "get_book"
    /\ Return(r, Ok(First(table, book_id[r])))
    /\ UNCHANGED <<table, nextId, strict, op, book_id, body, session, closes>>

get_book(r) ==
    /\ pc[r] = "handler" /\ op[r] = "get_book"
    /\ LET book == First(table, book_id[r]) IN
        Return(r, IF book = None THEN NotFound ELSE Ok(book))
    /\ UNCHANGED <<table, nextId, strict, op, book_id, body, session, closes>>

(* create_book up to db.commit(): INSERT and COMMIT.  A refused INSERT still *)
(* uses up the counter's value.                                              *)
create_book(r) ==
    /\ pc[r] = "handler" /\ op[r] = "create_book"
    /\ LET p == body[r]
           row == Assign(Book(nextId, p), Fields, p)
       IN  IF DataError(strict, Fields, p)
           THEN /\ Return(r, ServerError)
                /\ UNCHANGED <<table, nextId>>
           ELSE IF IsbnTaken(table, row.isbn, row.id)
           THEN /\ Return(r, ServerError)
                /\ nextId' = nextId + 1
                /\ UNCHANGED table
           ELSE /\ table' = table \cup {row}
                /\ nextId' = nextId + 1
                /\ db_book' = [db_book EXCEPT ![r] = Expired(nextId)]
                /\ pc' = [pc EXCEPT ![r] = "refresh"]
                /\ UNCHANGED resp
    /\ UNCHANGED <<strict, op, book_id, body, session, closes>>

(* update_book, delete_book: the query and the 404. *)
query(r) ==
    /\ pc[r] = "handler" /\ op[r] \in {"update_book", "delete_book"}
    /\ LET book == First(table, book_id[r]) IN
        IF book = None
        THEN Return(r, NotFound)
        ELSE /\ db_book' = [db_book EXCEPT ![r] = book]
             /\ pc' = [pc EXCEPT ![r] = "commit"]
             /\ UNCHANGED resp
    /\ UNCHANGED <<table, nextId, strict, op, book_id, body, session, closes>>

(* update_book: the five assignments and db.commit(): an UPDATE of the      *)
(* changed columns (none changed: no statement) and COMMIT.  The UPDATE     *)
(* fails when it matches no row, writes a refused value or a taken isbn.    *)
update_book(r) ==
    /\ pc[r] = "commit" /\ op[r] = "update_book"
    /\ LET p == body[r]
           cols == Dirty(db_book[r], p)
           cur == First(table, book_id[r])
       IN  IF cols = {}
           THEN /\ pc' = [pc EXCEPT ![r] = "refresh"]
                /\ db_book' = [db_book EXCEPT ![r] = Expired(book_id[r])]
                /\ UNCHANGED <<table, resp>>
           ELSE IF \/ cur = None
                   \/ DataError(strict, cols, p)
                   \/ "isbn" \in cols /\ IsbnTaken(table, Fit("isbn", p.isbn), cur.id)
           THEN /\ Return(r, ServerError)
                /\ UNCHANGED table
           ELSE /\ table' = (table \ {cur}) \cup {Assign(cur, cols, p)}
                /\ pc' = [pc EXCEPT ![r] = "refresh"]
                /\ db_book' = [db_book EXCEPT ![r] = Expired(cur.id)]
                /\ UNCHANGED resp
    /\ UNCHANGED <<nextId, strict, op, book_id, body, session, closes>>

(* db.refresh(db_book) and the return, of create_book and update_book: the  *)
(* row is read again; it fails when the row is gone.                        *)
refresh(r) ==
    /\ pc[r] = "refresh"
    /\ LET book == First(table, db_book[r].id) IN
        Return(r, IF book = None THEN ServerError ELSE Ok(book))
    /\ UNCHANGED <<table, nextId, strict, op, book_id, body, session, closes>>

(* delete_book: db.delete, db.commit() and the return.  A DELETE that       *)
(* matches no row is not an error.                                          *)
delete_book(r) ==
    /\ pc[r] = "commit" /\ op[r] = "delete_book"
    /\ table' = DeleteRow(table, db_book[r].id)
    /\ Return(r, Deleted(book_id[r]))
    /\ UNCHANGED <<nextId, strict, op, book_id, body, session, closes>>

(* get_db: finally: db.close().  The response goes out and the worker is    *)
(* free again.                                                              *)
close(r) ==
    /\ pc[r] = "close"
    /\ session' = [session EXCEPT ![r] = "closed"]
    /\ closes' = [closes EXCEPT ![r] = @ + 1]
    /\ pc' = [pc EXCEPT ![r] = "idle"]
    /\ op' = [op EXCEPT ![r] = "none"]
    /\ book_id' = [book_id EXCEPT ![r] = 0]
    /\ body' = [body EXCEPT ![r] = NoBody]
    /\ resp' = [resp EXCEPT ![r] = NoResp]
    /\ UNCHANGED <<table, nextId, strict, db_book>>

Step(r) ==
    \/ Request(r)
    \/ get_books(r)
    \/ get_book(r)
    \/ create_book(r)
    \/ query(r)
    \/ update_book(r)
    \/ refresh(r)
    \/ delete_book(r)
    \/ close(r)

Next == \E r \in Workers : Step(r)

Spec == Init /\ [][Next]_vars

(* The steps of a request already accepted: each is one store round trip or  *)
(* local code, none waits for another request.                               *)
Handle(r) ==
    \/ get_books(r)
    \/ get_book(r)
    \/ create_book(r)
    \/ query(r)
    \/ update_book(r)
    \/ refresh(r)
    \/ delete_book(r)
    \/ close(r)

(* Every accepted request is run to its end by its worker thread. *)
FairSpec == Spec /\ \A r \in Workers : WF_vars(Handle(r))

----------------------------------------------------------------------------
(* Vocabulary of the properties *)

Exists(tbl, id) == \E b \in tbl : b.id = id
Holds(tbl, isbn) == \E b \in tbl : b.isbn = isbn
Finished(w, o) == pc[w] = "close" /\ op[w] = o
Fits(p) == \A f \in Fields : ~TooLong(f, p[f])
Alone(w) == \A v \in Workers \ {w} : pc[v] = "idle"

----------------------------------------------------------------------------
(* C1: a create of a valid payload whose isbn no row holds succeeds, gets an  *)
(* id no existing row has, and the row a get of that id reads next equals the *)
(* payload plus the id.  No other request is in flight.                       *)
C1_CreateThenGet ==
    [][\A w \in Workers :
        (create_book(w) /\ Alone(w) /\ ~Holds(table, body[w].isbn))
        => /\ pc'[w] = "refresh"
           /\ ~Exists(table, nextId)
           /\ First(table', nextId) = Book(nextId, body[w])]_vars

(* C2: a create whose isbn a row already holds fails with status 409 (or     *)
(* 400) and leaves the table as it was.  No other request is in flight.      *)
C2_DuplicateIsConflict ==
    [][\A w \in Workers :
        (create_book(w) /\ Alone(w) /\ Holds(table, body[w].isbn))
        => /\ resp'[w].status \in {409, 400}
           /\ table' = table]_vars

(* C3: get, update and delete of an id no row has each answer 404 "Book not   *)
(* found" and leave the table unchanged, from the query to the end of the     *)
(* request.                                                                   *)
C3_NotFoundNoChange ==
    [][\A w \in Workers :
        /\ ((get_book(w) \/ query(w)) /\ ~Exists(table, book_id[w]))
           => /\ resp'[w] = NotFound
              /\ pc'[w] = "close"
              /\ table' = table
        /\ (close(w) /\ resp[w] = NotFound) => table' = table]_vars

C3_Witness ==
    /\ table # {}
    /\ Finished("w1", "update_book") /\ resp["w1"] = NotFound
    /\ Finished("w2", "delete_book") /\ resp["w2"] = NotFound
    /\ ~Exists(table, book_id["w1"]) /\ ~Exists(table, book_id["w2"])

(* C4: an update of an existing row with a valid payload whose isbn no other *)
(* row holds succeeds, and the row a get reads next is exactly the payload   *)
(* with the id.  No other request is in flight, and none wrote the row since *)
(* the handler read it.                                                      *)
C4_UpdateThenGet ==
    [][\A w \in Workers :
        (/\ update_book(w)
         /\ Alone(w)
         /\ db_book[w] = First(table, book_id[w])
         /\ ~IsbnTaken(table, body[w].isbn, book_id[w]))
        => /\ pc'[w] = "refresh"
           /\ First(table', book_id[w]) = Book(book_id[w], body[w])]_vars

(* C5: a delete of an existing id answers 200 and removes exactly that row;  *)
(* the id never comes back, and a get or delete of it afterwards answers 404 *)
(* and changes nothing.                                                      *)
C5_DeleteOnce ==
    [][/\ \A w \in Workers :
            /\ delete_book(w)
               => /\ resp'[w] = Deleted(book_id[w])
                  /\ table' = {b \in table : b.id # book_id[w]}
            /\ ((get_book(w) \/ (query(w) /\ op[w] = "delete_book"))
                    /\ ~Exists(table, book_id[w]))
               => resp'[w] = NotFound /\ table' = table
       /\ \A i \in 1..(nextId - 1) : ~Exists(table, i) => ~Exists(table', i)]_vars

C5_Witness ==
    /\ Finished("w1", "delete_book") /\ resp["w1"] = Deleted(1)
    /\ Finished("w2", "delete_book") /\ resp["w2"] = NotFound /\ book_id["w2"] = 1
    /\ \E b \in table : b.id = 2

(* C6: a session that was opened is closed, whatever way its handler ends:   *)
(* no session stays open for ever, an open session is left only by closing  *)
(* it, it is closed once, and no worker is idle with its session open.       *)
C6_SessionReleased ==
    /\ \A w \in Workers : []<>(session[w] # "open")
    /\ [][\A w \in Workers :
            /\ closes'[w] <= 1
            /\ pc'[w] = "idle" => session'[w] # "open"
            /\ (session[w] = "open" /\ session'[w] # "open")
               => session'[w] = "closed" /\ closes'[w] = 1]_vars

C6_Witness ==
    /\ session["w1"] = "closed" /\ closes["w1"] = 1 /\ pc["w1"] = "idle"
    /\ pc["w2"] = "close" /\ session["w2"] = "open"
    /\ op["w2"] = "create_book" /\ resp["w2"] = ServerError
    /\ Fits(body["w2"]) /\ Holds(table, body["w2"].isbn)

(* C7: two updates of the same row that both succeeded leave the row holding *)
(* all fields of one of the two payloads.                                    *)
C7_LastWriteWins ==
    (/\ Finished("w1", "update_book") /\ Finished("w2", "update_book")
     /\ book_id["w1"] = book_id["w2"]
     /\ resp["w1"].status = 200 /\ resp["w2"].status = 200
     /\ Fits(body["w1"]) /\ Fits(body["w2"]))
    => \E w \in Workers :
            First(table, book_id[w]) = Book(book_id[w], body[w])

C9_IdsStable ==
    [][/\ \A a, b \in table' : a.id = b.id => a = b
       /\ \A w \in Workers :
            /\ create_book(w)
               => \/ table' = table
                  \/ /\ ~Exists(table, nextId)
                     /\ \E b \in table' : b.id = nextId /\ table' = table \cup {b}
            /\ update_book(w)
               => /\ {b.id : b \in table'} = {b.id : b \in table}
                  /\ \A b \in table : b.id # book_id[w] => b \in table']_vars

C9_Witness ==
    /\ Cardinality(table) = 2
    /\ Finished("w1", "update_book") /\ resp["w1"].status = 200
    /\ resp["w1"].body.id = 1
    /\ Finished("w2", "create_book") /\ resp["w2"].status = 200
    /\ resp["w2"].body.id = 2

(* C10: of two deletes of the same id, at most one answers with the success  *)
(* confirmation.                                                             *)
C10_OneDeleteSucceeds ==
    ~(/\ Finished("w1", "delete_book") /\ Finished("w2", "delete_book")
      /\ book_id["w1"] = book_id["w2"]
      /\ resp["w1"].status = 200 /\ resp["w2"].status = 200)

====
